---- MODULE Spec2Model ----
(***************************************************************************)
(* RBT screening scripts: the parity checker (scripts/parity_check.py), the *)
(* bond-quantum analyzer (scripts/bond_quantum.py) and the phonon stability *)
(* checker (scripts/check_phonon_stability.py), each modelled as one        *)
(* command-line run from the end of argument parsing to sys.exit.           *)
(*                                                                          *)
(* The neighbour oracle (CrystalNN.get_nn_info) is external: every lookup   *)
(* either raises or yields neighbour records one after the other, each an   *)
(* arbitrary site index of the structure with an arbitrary distance.        *)
(* Distances are counted in units of 0.5 Angstrom, so the default cutoff    *)
(* of 3.5 Angstrom is 7.                                                    *)
(*                                                                          *)
(* The files of the phonon checker hand over their lines one after the      *)
(* other, each an arbitrary line of a small set of dyn0 lines.              *)
(***************************************************************************)
EXTENDS Integers, Sequences, FiniteSets, TLC

\* ------------------------------------------------------------------ bounds
MaxAtoms == 2       \* atoms in a structure file
MaxBonds == 3       \* neighbour records the oracle returns to one find_light_atom_bonds call
MaxNodes == 4       \* nodes of a graph handed to calculate_parity

DefaultCutoff == 7  \* --cutoff default, 3.5 Angstrom

\* two distances within the default cutoff, one beyond it
Distances == {DefaultCutoff - 1, DefaultCutoff, DefaultCutoff + 1}
Cutoffs == {DefaultCutoff - 1, DefaultCutoff}
FileStates == {"ok", "missing", "unparseable"}

VARIABLES
    pc,               \* position of the run
    file_state,       \* what args.structure_file names on disk
    quiet,            \* args.quiet
    structure,        \* the loaded Structure: sequence of species strings (atom i is structure[i+1])
    raised,           \* the exception propagating to main's handler, "none" if none
    exit_code,        \* the code given to sys.exit, -1 while running
    stdout,           \* the lines printed so far (one tag per line)
    results,          \* the results dict of analyze_structure (a function of its keys)
    cutoff_distance,  \* RBTParityChecker.cutoff_distance
    G,                \* the nx.Graph being built: node -> (neighbour -> distance)
    i,                \* index of the atom of the current iteration
    builds,           \* calls of build_connectivity_graph so far
    failed,           \* history: atoms whose lookup raised in the first build
    seen,             \* history: unordered pair -> distance of the first record within cutoff
    repeated,         \* history: a record within cutoff came for a pair that already had one
    threshold_energy, \* BondQuantumAnalyzer.threshold_energy
    light_bonds,      \* find_light_atom_bonds: the bonds collected, before deduplication
    unique_bonds,     \* find_light_atom_bonds: the list returned, which analyze_structure sorts
    reported,         \* history: the records <<i, j, distance>> get_nn_info returned to the current call
    files,            \* check_phonon_stability: what each path of sys.argv[1:] names on disk
    fidx,             \* analyse_files: position in the file list (1-based)
    nline,            \* parse_frequencies: lines of the current file read so far
    line,             \* parse_frequencies: the line at hand (a sequence of characters)
    freqs,            \* parse_frequencies: the list being filled
    parsed,           \* history: the list each file read to its end yielded, in file order
    total,            \* analyse_files: total
    imag,             \* analyse_files: imag
    min_freq,         \* analyse_files: min_freq
    args,             \* the inputs fixed for a run: qe_builder's argparse namespace, the
                      \* reduced mass, the oracle's answers to be given again
    written,          \* qe_builder: the files written, name -> content
    calls,            \* calls of the function under study made so far
    returned,         \* what those calls returned
    dyn_file          \* the lines of the dyn file both phonon checks are given

cli_vars == <<pc, file_state, quiet, structure, raised, exit_code, stdout, results>>
parity_vars == <<cutoff_distance, G, i, builds, failed, seen, repeated>>
bond_vars == <<threshold_energy, light_bonds, unique_bonds, reported>>
phonon_vars == <<files, fidx, nline, line, freqs, parsed, total, imag, min_freq>>
call_vars == <<args, written, calls, returned, dyn_file>>
vars == <<cli_vars, parity_vars, bond_vars, phonon_vars, call_vars>>

\* ------------------------------------------------------------- structures
NoDict == [x \in {} |-> 0]

NumSites(s) == Len(s)
SiteIndices(s) == 0..(Len(s) - 1)

\* dict[k] = v
SetItem(d, k, v) == [x \in (DOMAIN d) \cup {k} |-> IF x = k THEN v ELSE d[x]]

\* ---------------------------------------------------------------- nx.Graph
\* G.add_node(n): a node with an empty adjacency dict, kept if already there
add_node(g, n) == IF n \in DOMAIN g THEN g ELSE SetItem(g, n, NoDict)

\* G.has_edge(u, v)
has_edge(g, u, v) == u \in DOMAIN g /\ v \in DOMAIN g[u]

\* A directed graph's add_edge: only u's adjacency is written.
add_edge_directed(g, u, v, d) ==
    LET g1 == add_node(add_node(g, u), v)
    IN [g1 EXCEPT ![u] = SetItem(@, v, d)]

\* G.add_edge(u, v, distance=d): both adjacency dicts get the entry
add_edge(g, u, v, d) ==
    LET g1 == add_node(add_node(g, u), v)
        g2 == [g1 EXCEPT ![u] = SetItem(@, v, d)]
    IN [g2 EXCEPT ![v] = SetItem(@, u, d)]

\* a degree that counts a self-loop once
degree_loop_once(g, n) == Cardinality(DOMAIN g[n])

\* G.degree(n): a self-loop counts twice
degree(g, n) == Cardinality(DOMAIN g[n]) + (IF n \in DOMAIN g[n] THEN 1 ELSE 0)

RECURSIVE SumOver(_, _)
SumOver(f, S) ==
    IF S = {} THEN 0
    ELSE LET x == CHOOSE y \in S : TRUE IN f[x] + SumOver(f, S \ {x})

Degrees(g) == [n \in DOMAIN g |-> degree(g, n)]

number_of_nodes(g) == Cardinality(DOMAIN g)
number_of_edges(g) == SumOver(Degrees(g), DOMAIN g) \div 2

\* G.edges(data='distance') as a set of <<unordered pair, distance>> entries
Adjacencies(g) == {p \in (DOMAIN g) \X (DOMAIN g) : p[2] \in DOMAIN g[p[1]]}
Edges(g) == {<<{p[1], p[2]}, g[p[1]][p[2]]>> : p \in Adjacencies(g)}

\* ------------------------------------------- RBTParityChecker (parity_check.py)
\* the node loop of build_connectivity_graph: nothing is added
NoNodes(s) == NoDict

\* the node loop of build_connectivity_graph: every site index becomes a node
AllNodes(s) == [n \in SiteIndices(s) |-> NoDict]

\* the cutoff test with a strict comparison
BelowCutoff(distance, cutoff) == distance < cutoff

\* distance <= self.cutoff_distance
WithinCutoff(distance, cutoff) == distance <= cutoff

\* the neighbour loop's body without the has_edge test: a later record overwrites
AddNeighborAlways(g, u, j, distance, cutoff) ==
    IF WithinCutoff(distance, cutoff) THEN add_edge(g, u, j, distance) ELSE g

\* the neighbour loop's body: add the edge if within cutoff and not already present
AddNeighbor(g, u, j, distance, cutoff) ==
    IF WithinCutoff(distance, cutoff) /\ ~has_edge(g, u, j)
    THEN add_edge(g, u, j, distance)
    ELSE g

\* the nodes in dict order (insertion order: ascending site index)
RECURSIVE NodeList(_)
NodeList(S) ==
    IF S = {} THEN <<>>
    ELSE LET m == CHOOSE x \in S : \A y \in S : x <= y
         IN <<m>> \o NodeList(S \ {m})

Min(S) == CHOOSE x \in S : \A y \in S : x <= y
Max(S) == CHOOSE x \in S : \A y \in S : x >= y

\* the parity test inverted
IsEven(n) == n % 2 = 0

\* degree % 2 == 1
IsOdd(n) == n % 2 = 1

\* calculate_parity: (K, odd_vertices, stats); avg_degree is kept as the fraction sum/count
calculate_parity(g) ==
    LET degrees == Degrees(g)
        nodes == NodeList(DOMAIN g)
        degree_values == {degrees[n] : n \in DOMAIN g}
        odd_vertices == SelectSeq(nodes, LAMBDA n : IsOdd(degrees[n]))
        K == Len(odd_vertices)
    IN [K |-> K,
        odd_vertices |-> odd_vertices,
        stats |-> [total_vertices |-> number_of_nodes(g),
                   total_edges |-> number_of_edges(g),
                   min_degree |-> IF degree_values # {} THEN Min(degree_values) ELSE 0,
                   max_degree |-> IF degree_values # {} THEN Max(degree_values) ELSE 0,
                   avg_degree |-> IF degree_values # {}
                                  THEN <<SumOver(degrees, DOMAIN g), Len(nodes)>>
                                  ELSE <<0, 1>>,
                   odd_degree_count |-> K,
                   even_degree_count |-> Len(nodes) - K]]

\* the results dict of RBTParityChecker.analyze_structure
ParityResults(s, g) ==
    LET p == calculate_parity(g)
    IN [filepath |-> "structure_file",
        formula |-> s,
        K_parity |-> p.K,
        passes_parity_test |-> (p.K = 0),
        odd_vertices |-> p.odd_vertices,
        graph_stats |-> p.stats]

\* the exit code with the two verdicts exchanged
ExitCodeSwapped(passes) == IF passes THEN 1 ELSE 0

\* exit_code = 0 if results[passes] else 1
ExitCode(passes) == IF passes THEN 0 ELSE 1

\* ------------------------------------------------------------ parity CLI run
Structures(elements) == UNION {[1..n -> elements] : n \in 0..MaxAtoms}

\* The parity run never reads the species of a site but to label nodes: one species.
\* the variables of the other scripts and of the repeated calls, while they are not used
NoCalls ==
    /\ args = NoDict
    /\ written = NoDict
    /\ calls = 0
    /\ returned = <<>>
    /\ dyn_file = <<>>

\* the variables of the phonon stability checker, while another script runs
NoPhononRun ==
    /\ files = <<>>
    /\ fidx = 0
    /\ nline = 0
    /\ line = <<>>
    /\ freqs = <<>>
    /\ parsed = <<>>
    /\ total = 0
    /\ imag = 0
    /\ min_freq = 0

ParityInit ==
    /\ pc = "load"
    /\ file_state \in FileStates
    /\ quiet \in BOOLEAN
    /\ structure \in Structures({"Li"})
    /\ file_state # "ok" => structure = <<>>
    /\ raised = "none"
    /\ exit_code = -1
    /\ stdout = <<>>
    /\ results = NoDict
    /\ cutoff_distance \in Cutoffs
    /\ G = NoDict
    /\ i = 0
    /\ builds = 0
    /\ failed = {}
    /\ seen = NoDict
    /\ repeated = FALSE
    /\ threshold_energy = <<0, 1>>
    /\ light_bonds = <<>>
    /\ unique_bonds = <<>>
    /\ reported = {}
    /\ NoPhononRun
    /\ NoCalls

\* analyze_structure's header and load_structure
LoadStructure ==
    /\ pc = "load"
    /\ \/ /\ file_state = "missing"
          /\ raised' = "FileNotFoundError"
          /\ pc' = "except"
          /\ stdout' = stdout \o <<"header", "header", "header">>
       \/ /\ file_state = "unparseable"
          /\ raised' = "ValueError"
          /\ pc' = "except"
          /\ stdout' = stdout \o <<"header", "header", "header">>
       \/ /\ file_state = "ok"
          /\ raised' = raised
          /\ pc' = "add_nodes"
          /\ stdout' = stdout \o <<"header", "header", "header", "loaded", "space_group", "lattice">>
    /\ UNCHANGED <<file_state, quiet, structure, exit_code, results, parity_vars, bond_vars, phonon_vars, call_vars>>

\* build_connectivity_graph up to its edge loop
AddNodes ==
    /\ pc = "add_nodes"
    /\ G' = AllNodes(structure)
    /\ i' = 0
    /\ builds' = builds + 1
    /\ stdout' = Append(stdout, "building")
    /\ pc' = "for_atom"
    /\ UNCHANGED <<file_state, quiet, structure, raised, exit_code, results,
                   cutoff_distance, failed, seen, repeated, bond_vars, phonon_vars, call_vars>>

\* get_nn_info raises and nothing catches it inside the build
GetNNInfoRaisesUncaught ==
    /\ pc = "for_atom"
    /\ i < NumSites(structure)
    /\ failed' = failed \cup {i}
    /\ raised' = "Exception"
    /\ pc' = "except"
    /\ UNCHANGED <<file_state, quiet, structure, exit_code, stdout, results,
                   cutoff_distance, G, i, builds, seen, repeated, bond_vars, phonon_vars, call_vars>>

\* get_nn_info raises for atom i: the warning is printed, the loop continues
GetNNInfoRaises ==
    /\ pc = "for_atom"
    /\ i < NumSites(structure)
    /\ failed' = failed \cup {i}
    /\ stdout' = Append(stdout, "warning")
    /\ i' = i + 1
    /\ UNCHANGED <<pc, file_state, quiet, structure, raised, exit_code, results,
                   cutoff_distance, G, builds, seen, repeated, bond_vars, phonon_vars, call_vars>>

\* get_nn_info returns a list for atom i (of any length)
GetNNInfoReturns ==
    /\ pc = "for_atom"
    /\ i < NumSites(structure)
    /\ pc' = "for_neighbor"
    /\ UNCHANGED <<file_state, quiet, structure, raised, exit_code, stdout, results,
                   cutoff_distance, G, i, builds, failed, seen, repeated, bond_vars, phonon_vars, call_vars>>

\* one iteration of the neighbour loop, on the record (site_index j, weight distance)
ForNeighbor ==
    /\ pc = "for_neighbor"
    /\ \E j \in SiteIndices(structure), distance \in Distances :
        /\ G' = AddNeighbor(G, i, j, distance, cutoff_distance)
        /\ seen' = IF distance <= cutoff_distance /\ {i, j} \notin DOMAIN seen
                   THEN SetItem(seen, {i, j}, distance)
                   ELSE seen
        /\ repeated' = (repeated \/ (distance <= cutoff_distance /\ {i, j} \in DOMAIN seen))
    /\ UNCHANGED <<cli_vars, cutoff_distance, i, builds, failed, bond_vars, phonon_vars, call_vars>>

\* the neighbour list of atom i is exhausted
EndNeighbors ==
    /\ pc = "for_neighbor"
    /\ i' = i + 1
    /\ pc' = "for_atom"
    /\ UNCHANGED <<file_state, quiet, structure, raised, exit_code, stdout, results,
                   cutoff_distance, G, builds, failed, seen, repeated, bond_vars, phonon_vars, call_vars>>

\* the edge loop is over: the summary line, return G
GraphBuilt ==
    /\ pc = "for_atom"
    /\ i = NumSites(structure)
    /\ stdout' = Append(stdout, "graph_built")
    /\ pc' = "calc"
    /\ UNCHANGED <<file_state, quiet, structure, raised, exit_code, results, parity_vars, bond_vars, phonon_vars, call_vars>>

\* calculate_parity without the guards for the empty graph: min() of an empty list raises
CalculateParityUnguarded ==
    /\ pc = "calc"
    /\ IF DOMAIN G = {}
       THEN /\ raised' = "ValueError"
            /\ pc' = "except"
            /\ results' = results
       ELSE /\ raised' = raised
            /\ pc' = IF quiet THEN "exit" ELSE "print"
            /\ results' = ParityResults(structure, G)
    /\ UNCHANGED <<file_state, quiet, structure, exit_code, stdout, parity_vars, bond_vars, phonon_vars, call_vars>>

\* a calculate_parity that removes the self-loops from the graph before it counts
CalculateParityRemovingLoops ==
    /\ pc = "calc"
    /\ G' = [u \in DOMAIN G |-> [v \in (DOMAIN G[u]) \ {u} |-> G[u][v]]]
    /\ results' = ParityResults(structure, G')
    /\ pc' = IF quiet THEN "exit" ELSE "print"
    /\ UNCHANGED <<file_state, quiet, structure, raised, exit_code, stdout,
                   cutoff_distance, i, builds, failed, seen, repeated,
                   bond_vars, phonon_vars, call_vars>>

\* calculate_parity and the results dict; back in main
CalculateParity ==
    /\ pc = "calc"
    /\ results' = ParityResults(structure, G)
    /\ pc' = IF quiet THEN "exit" ELSE "print"
    /\ UNCHANGED <<file_state, quiet, structure, raised, exit_code, stdout, parity_vars, bond_vars, phonon_vars, call_vars>>

\* print_results; for each of the first 10 odd vertices the graph is built again
\* (the oracle is deterministic: the same graph, the same warnings)
PrintResults ==
    /\ pc = "print"
    /\ builds' = builds + (IF Len(results.odd_vertices) < 10
                           THEN Len(results.odd_vertices) ELSE 10)
    /\ stdout' = Append(stdout, "results")
    /\ pc' = "exit"
    /\ UNCHANGED <<file_state, quiet, structure, raised, exit_code, results,
                   cutoff_distance, G, i, failed, seen, repeated, bond_vars, phonon_vars, call_vars>>

\* exit_code, the quiet line, sys.exit(exit_code)
SysExit ==
    /\ pc = "exit"
    /\ exit_code' = ExitCode(results.passes_parity_test)
    /\ stdout' = IF quiet THEN Append(stdout, "K_line") ELSE stdout
    /\ pc' = "exited"
    /\ UNCHANGED <<file_state, quiet, structure, raised, results, parity_vars, bond_vars, phonon_vars, call_vars>>

\* except Exception: print the error, sys.exit(2)
Except ==
    /\ pc = "except"
    /\ stdout' = Append(stdout, "error")
    /\ exit_code' = 2
    /\ pc' = "exited"
    /\ UNCHANGED <<file_state, quiet, structure, raised, results, parity_vars, bond_vars, phonon_vars, call_vars>>

ParityNext ==
    \/ LoadStructure
    \/ AddNodes
    \/ GetNNInfoRaises
    \/ GetNNInfoReturns
    \/ ForNeighbor
    \/ EndNeighbors
    \/ GraphBuilt
    \/ CalculateParity
    \/ PrintResults
    \/ SysExit
    \/ Except

Spec == ParityInit /\ [][ParityNext]_vars

\* ------------------------------------------- parity run on a 3-atom chain
\* a structure of three atoms in a row
ChainStructure == <<"Li", "Li", "Li">>

\* the pairs within cutoff of each other: 0-1 and 1-2
ChainPairs == {{0, 1}, {1, 2}}

ChainInit ==
    /\ pc = "load"
    /\ file_state \in FileStates
    /\ quiet \in BOOLEAN
    /\ structure = IF file_state = "ok" THEN ChainStructure ELSE <<>>
    /\ raised = "none"
    /\ exit_code = -1
    /\ stdout = <<>>
    /\ results = NoDict
    /\ cutoff_distance \in Cutoffs
    /\ G = NoDict
    /\ i = 0
    /\ builds = 0
    /\ failed = {}
    /\ seen = NoDict
    /\ repeated = FALSE
    /\ threshold_energy = <<0, 1>>
    /\ light_bonds = <<>>
    /\ unique_bonds = <<>>
    /\ reported = {}
    /\ NoPhononRun
    /\ NoCalls

\* the oracle of the chain: a record within cutoff is for a pair of the chain
ChainForNeighbor ==
    /\ ForNeighbor
    /\ DOMAIN seen' \subseteq ChainPairs

ChainNext ==
    \/ LoadStructure
    \/ AddNodes
    \/ GetNNInfoRaises
    \/ GetNNInfoReturns
    \/ ChainForNeighbor
    \/ EndNeighbors
    \/ GraphBuilt
    \/ CalculateParity
    \/ PrintResults
    \/ SysExit
    \/ Except

SpecChain == ChainInit /\ [][ChainNext]_vars

\* --------------------------------------- calculate_parity on any graph
\* the nx.Graph on nodes 0..n-1 whose edges are the pairs of E, each of distance d
GraphOf(n, E, d) == [u \in 0..(n - 1) |-> [v \in {w \in 0..(n - 1) : {u, w} \in E} |-> d]]

\* the unordered pairs of nodes 0..n-1, loops included
NodePairs(n) == {{u, v} : u, v \in 0..(n - 1)}

\* calculate_parity is about to be called on an arbitrary graph (simple or with loops)
GraphInit ==
    /\ pc = "calc"
    /\ file_state = "ok"
    /\ quiet \in BOOLEAN
    /\ \E n \in 0..MaxNodes : \E E \in SUBSET NodePairs(n) :
        /\ structure = [k \in 1..n |-> "Li"]
        /\ G = GraphOf(n, E, DefaultCutoff)
        /\ seen = [p \in E |-> DefaultCutoff]
    /\ raised = "none"
    /\ exit_code = -1
    /\ stdout = <<>>
    /\ results = NoDict
    /\ cutoff_distance = DefaultCutoff
    /\ i = NumSites(structure)
    /\ builds = 1
    /\ failed = {}
    /\ repeated = FALSE
    /\ threshold_energy = <<0, 1>>
    /\ light_bonds = <<>>
    /\ unique_bonds = <<>>
    /\ reported = {}
    /\ NoPhononRun
    /\ NoCalls

GraphNext == CalculateParity

SpecGraph == GraphInit /\ [][GraphNext]_vars

\* ------------------------------------- BondQuantumAnalyzer (bond_quantum.py)
\* Species of the modelled structures: hydrogen is light, iron is not.
BondElements == {"H", "Fe"}

LIGHT_ATOMS == {"H", "He", "Li", "Be", "B", "C", "N", "O", "F", "Ne"}

\* Element(e).atomic_mass, rounded to the atomic mass unit
AtomicMass(e) == IF e = "H" THEN 1 ELSE 56

\* _calculate_reduced_mass: m1*m2 / (m1+m2), kept as the fraction <<numerator, denominator>>
calculate_reduced_mass(element1, element2) ==
    LET m1 == AtomicMass(element1)
        m2 == AtomicMass(element2)
    IN <<m1 * m2, m1 + m2>>

\* Energies are kept exact as the fraction 1 / (distance^2 * reduced_mass), which is the
\* square of estimate_phonon_energy's value over the constant
\* (HBAR/PI)^2 * force_constant_scale / amu_to_ev_per_ang2; thresholds are in that unit.
\* The square root is increasing, so comparing these fractions (of positive terms)
\* compares the energies.
estimate_phonon_energy(bond_distance, reduced_mass) ==
    <<reduced_mass[2], bond_distance * bond_distance * reduced_mass[1]>>

\* a >= b for fractions with positive denominators
FracGeq(a, b) == a[1] * b[2] >= b[1] * a[2]

\* the bond descriptor of find_light_atom_bonds for origin u and the record (j, distance)
Bond(s, u, j, distance) ==
    [atom1_idx |-> u,
     atom2_idx |-> j,
     atom1_element |-> s[u + 1],
     atom2_element |-> s[j + 1],
     distance |-> distance,
     reduced_mass |-> calculate_reduced_mass(s[u + 1], s[j + 1]),
     bond_type |-> <<s[u + 1], s[j + 1]>>,
     both_light |-> (s[u + 1] \in LIGHT_ATOMS /\ s[j + 1] \in LIGHT_ATOMS)]

\* the pair without sorted(): origin first
OrderedPairOf(bond) == <<bond.atom1_idx, bond.atom2_idx>>

\* tuple(sorted([atom1_idx, atom2_idx])), as the unordered pair
PairOf(bond) == {bond.atom1_idx, bond.atom2_idx}

\* the duplicate removal of find_light_atom_bonds: the first bond of each pair is kept
RECURSIVE RemoveDuplicates(_, _)
RemoveDuplicates(bonds, seen_pairs) ==
    IF bonds = <<>> THEN <<>>
    ELSE LET bond == Head(bonds)
         IN IF PairOf(bond) \notin seen_pairs
            THEN <<bond>> \o RemoveDuplicates(Tail(bonds), seen_pairs \cup {PairOf(bond)})
            ELSE RemoveDuplicates(Tail(bonds), seen_pairs)

\* x * 1000 for a fraction x
Times1000(x) == <<1000 * x[1], x[2]>>

\* the energy fields analyze_structure adds to a bond
WithEnergy(bond) ==
    [atom1_idx |-> bond.atom1_idx,
     atom2_idx |-> bond.atom2_idx,
     atom1_element |-> bond.atom1_element,
     atom2_element |-> bond.atom2_element,
     distance |-> bond.distance,
     reduced_mass |-> bond.reduced_mass,
     bond_type |-> bond.bond_type,
     both_light |-> bond.both_light,
     phonon_energy_eV |-> estimate_phonon_energy(bond.distance, bond.reduced_mass),
     phonon_energy_meV |-> Times1000(estimate_phonon_energy(bond.distance, bond.reduced_mass))]

\* the sort with reverse=True: descending distance
RECURSIVE InsertByDistanceDescending(_, _)
InsertByDistanceDescending(sorted, bond) ==
    IF sorted = <<>> THEN <<bond>>
    ELSE IF Head(sorted).distance >= bond.distance
         THEN <<Head(sorted)>> \o InsertByDistanceDescending(Tail(sorted), bond)
         ELSE <<bond>> \o sorted

RECURSIVE SortByDistanceDescending(_)
SortByDistanceDescending(bonds) ==
    IF bonds = <<>> THEN <<>>
    ELSE InsertByDistanceDescending(SortByDistanceDescending(SubSeq(bonds, 1, Len(bonds) - 1)),
                                    bonds[Len(bonds)])

\* list.sort(key=distance): stable, ascending
RECURSIVE InsertByDistance(_, _)
InsertByDistance(sorted, bond) ==
    IF sorted = <<>> THEN <<bond>>
    ELSE IF Head(sorted).distance <= bond.distance
         THEN <<Head(sorted)>> \o InsertByDistance(Tail(sorted), bond)
         ELSE <<bond>> \o sorted

RECURSIVE SortByDistance(_)
SortByDistance(bonds) ==
    IF bonds = <<>> THEN <<>>
    ELSE InsertByDistance(SortByDistance(SubSeq(bonds, 1, Len(bonds) - 1)), bonds[Len(bonds)])

\* the energy of the shortest bond (the first of the sorted list) in place of the maximum
EnergyOfShortest(bonds) == bonds[1].phonon_energy_eV

\* max(bond[phonon_energy_eV] for bond in bonds), bonds not empty
MaxEnergy(bonds) ==
    LET energies == {bonds[k].phonon_energy_eV : k \in DOMAIN bonds}
    IN CHOOSE e \in energies : \A f \in energies : FracGeq(e, f)

\* the results dict analyze_structure returns when no bond was found
NoBondsResults(s) ==
    [filepath |-> "structure_file",
     formula |-> s,
     light_bonds |-> <<>>,
     shortest_bond |-> <<>>,
     phonon_energy_meV |-> <<0, 1>>,
     phonon_energy_eV |-> <<0, 1>>,
     passes_energy_test |-> FALSE,
     critical_bonds |-> <<>>]

\* the results dict analyze_structure returns for a non-empty bond list
BondResults(s, bonds, threshold) ==
    LET sorted == SortByDistance([k \in DOMAIN bonds |-> WithEnergy(bonds[k])])
        max_energy == MaxEnergy(sorted)
    IN [filepath |-> "structure_file",
        formula |-> s,
        light_bonds |-> sorted,
        shortest_bond |-> sorted[1],
        phonon_energy_meV |-> Times1000(max_energy),
        phonon_energy_eV |-> max_energy,
        passes_energy_test |-> FracGeq(max_energy, threshold),
        critical_bonds |-> SelectSeq(sorted, LAMBDA b : FracGeq(b.phonon_energy_eV, threshold)),
        threshold_meV |-> Times1000(threshold)]

\* analyze_structure after find_light_atom_bonds
AnalyzeBonds(s, bonds, threshold) ==
    IF bonds = <<>> THEN NoBondsResults(s) ELSE BondResults(s, bonds, threshold)

\* exit_code = 0 if results[passes_energy_test] else 1
BondExitCode(passes) == IF passes THEN 0 ELSE 1

\* distances of the neighbour records: find_light_atom_bonds has no cutoff, so one is
\* at the parity checker's default cutoff and one beyond it
BondDistances == {DefaultCutoff, DefaultCutoff + 1}

\* --threshold values, in the unit of the energies: the energies of an H-H bond at
\* each of the distances
Thresholds ==
    {estimate_phonon_energy(d, calculate_reduced_mass("H", "H")) : d \in BondDistances}

\* ------------------------------------------------------- bond-quantum CLI run
BondInit ==
    /\ pc = "load"
    /\ file_state \in FileStates
    /\ quiet \in BOOLEAN
    /\ structure \in Structures(BondElements)
    /\ file_state # "ok" => structure = <<>>
    /\ raised = "none"
    /\ exit_code = -1
    /\ stdout = <<>>
    /\ results = NoDict
    /\ cutoff_distance = DefaultCutoff
    /\ G = NoDict
    /\ i = 0
    /\ builds = 0
    /\ failed = {}
    /\ seen = NoDict
    /\ repeated = FALSE
    /\ threshold_energy \in Thresholds
    /\ light_bonds = <<>>
    /\ unique_bonds = <<>>
    /\ reported = {}
    /\ NoPhononRun
    /\ NoCalls

\* analyze_structure's header, load_structure, and the start of find_light_atom_bonds
BondLoadStructure ==
    /\ pc = "load"
    /\ \/ /\ file_state = "missing"
          /\ raised' = "FileNotFoundError"
          /\ pc' = "except"
          /\ stdout' = stdout \o <<"header", "header", "header">>
       \/ /\ file_state = "unparseable"
          /\ raised' = "ValueError"
          /\ pc' = "except"
          /\ stdout' = stdout \o <<"header", "header", "header">>
       \/ /\ file_state = "ok"
          /\ raised' = raised
          /\ pc' = "for_site"
          /\ stdout' = stdout \o <<"header", "header", "header", "loaded", "analyzing">>
    /\ i' = 0
    /\ light_bonds' = <<>>
    /\ reported' = {}
    /\ UNCHANGED <<file_state, quiet, structure, exit_code, results,
                   cutoff_distance, G, builds, failed, seen, repeated,
                   threshold_energy, unique_bonds, phonon_vars, call_vars>>

\* if element not in self.LIGHT_ATOMS: continue
SkipHeavySite ==
    /\ pc = "for_site"
    /\ i < NumSites(structure)
    /\ structure[i + 1] \notin LIGHT_ATOMS
    /\ i' = i + 1
    /\ UNCHANGED <<cli_vars, cutoff_distance, G, builds, failed, seen, repeated, bond_vars, phonon_vars, call_vars>>

\* get_nn_info raises for the light atom i and nothing catches it in the selector
BondLookupRaisesUncaught ==
    /\ pc = "for_site"
    /\ i < NumSites(structure)
    /\ structure[i + 1] \in LIGHT_ATOMS
    /\ failed' = failed \cup {i}
    /\ raised' = "Exception"
    /\ pc' = "except"
    /\ UNCHANGED <<file_state, quiet, structure, exit_code, stdout, results,
                   cutoff_distance, G, i, builds, seen, repeated, bond_vars, phonon_vars, call_vars>>

\* get_nn_info raises for the light atom i: the warning is printed, the loop continues
BondLookupRaises ==
    /\ pc = "for_site"
    /\ i < NumSites(structure)
    /\ structure[i + 1] \in LIGHT_ATOMS
    /\ failed' = failed \cup {i}
    /\ stdout' = Append(stdout, "warning")
    /\ i' = i + 1
    /\ UNCHANGED <<pc, file_state, quiet, structure, raised, exit_code, results,
                   cutoff_distance, G, builds, seen, repeated, bond_vars, phonon_vars, call_vars>>

\* get_nn_info returns a list for the light atom i
BondLookupReturns ==
    /\ pc = "for_site"
    /\ i < NumSites(structure)
    /\ structure[i + 1] \in LIGHT_ATOMS
    /\ pc' = "for_bond"
    /\ UNCHANGED <<file_state, quiet, structure, raised, exit_code, stdout, results,
                   parity_vars, bond_vars, phonon_vars, call_vars>>

\* the neighbour loop with the parity checker's cutoff test: a record beyond it is dropped
AppendBondWithinCutoff ==
    /\ pc = "for_bond"
    /\ Len(light_bonds) < MaxBonds
    /\ \E j \in SiteIndices(structure), distance \in BondDistances :
        /\ light_bonds' = IF distance <= cutoff_distance
                          THEN Append(light_bonds, Bond(structure, i, j, distance))
                          ELSE light_bonds
        /\ reported' = reported \cup {<<i, j, distance>>}
    /\ UNCHANGED <<cli_vars, parity_vars, threshold_energy, unique_bonds, phonon_vars, call_vars>>

\* one iteration of the neighbour loop: the bond of the record (j, distance) is appended
AppendBond ==
    /\ pc = "for_bond"
    /\ Len(light_bonds) < MaxBonds
    /\ \E j \in SiteIndices(structure), distance \in BondDistances :
        /\ light_bonds' = Append(light_bonds, Bond(structure, i, j, distance))
        /\ reported' = reported \cup {<<i, j, distance>>}
    /\ UNCHANGED <<cli_vars, parity_vars, threshold_energy, unique_bonds, phonon_vars, call_vars>>

\* the neighbour list of the light atom i is exhausted
BondEndNeighbors ==
    /\ pc = "for_bond"
    /\ i' = i + 1
    /\ pc' = "for_site"
    /\ UNCHANGED <<file_state, quiet, structure, raised, exit_code, stdout, results,
                   cutoff_distance, G, builds, failed, seen, repeated, bond_vars, phonon_vars, call_vars>>

\* the end of the site loop with a seen_pairs set that outlives the call
FoundBondsKeepingSeen ==
    /\ pc = "for_site"
    /\ i = NumSites(structure)
    /\ unique_bonds' =
            RemoveDuplicates(light_bonds,
                UNION {{PairOf(returned[c][k]) : k \in DOMAIN returned[c]} : c \in DOMAIN returned})
    /\ stdout' = Append(stdout, "found")
    /\ pc' = "found"
    /\ UNCHANGED <<file_state, quiet, structure, raised, exit_code, results,
                   parity_vars, threshold_energy, light_bonds, reported, phonon_vars, call_vars>>

\* the site loop is over: duplicates are removed, the count is printed
FoundBonds ==
    /\ pc = "for_site"
    /\ i = NumSites(structure)
    /\ unique_bonds' = RemoveDuplicates(light_bonds, {})
    /\ stdout' = Append(stdout, "found")
    /\ pc' = "found"
    /\ UNCHANGED <<file_state, quiet, structure, raised, exit_code, results,
                   parity_vars, threshold_energy, light_bonds, reported, phonon_vars, call_vars>>

\* find_light_atom_bonds returns (its own list goes out of scope); analyze_structure
\* computes the energies, sorts the returned list in place and builds the results dict
AnalyzeStructure ==
    /\ pc = "found"
    /\ results' = AnalyzeBonds(structure, unique_bonds, threshold_energy)
    /\ unique_bonds' = results'.light_bonds
    /\ light_bonds' = <<>>
    /\ reported' = {}
    /\ stdout' = IF unique_bonds = <<>> THEN Append(stdout, "no_bonds") ELSE stdout
    /\ pc' = IF quiet THEN "exit" ELSE "print"
    /\ UNCHANGED <<file_state, quiet, structure, raised, exit_code,
                   parity_vars, threshold_energy, phonon_vars, call_vars>>

\* print_results: the threshold line reads results[threshold_meV]
BondPrintResults ==
    /\ pc = "print"
    /\ IF "threshold_meV" \in DOMAIN results
       THEN /\ stdout' = Append(stdout, "results")
            /\ pc' = "exit"
            /\ raised' = raised
       ELSE /\ stdout' = stdout \o <<"results_head", "formula", "max_energy">>
            /\ pc' = "except"
            /\ raised' = "KeyError"
    /\ UNCHANGED <<file_state, quiet, structure, exit_code, results, parity_vars, bond_vars, phonon_vars, call_vars>>

\* exit_code, the quiet line (which reads results[threshold_meV]), sys.exit(exit_code)
BondSysExit ==
    /\ pc = "exit"
    /\ IF quiet /\ "threshold_meV" \notin DOMAIN results
       THEN /\ raised' = "KeyError"
            /\ pc' = "except"
            /\ UNCHANGED <<exit_code, stdout>>
       ELSE /\ exit_code' = BondExitCode(results.passes_energy_test)
            /\ stdout' = IF quiet THEN Append(stdout, "energy_line") ELSE stdout
            /\ pc' = "exited"
            /\ raised' = raised
    /\ UNCHANGED <<file_state, quiet, structure, results, parity_vars, bond_vars, phonon_vars, call_vars>>

BondNext ==
    \/ BondLoadStructure
    \/ SkipHeavySite
    \/ BondLookupRaises
    \/ BondLookupReturns
    \/ AppendBond
    \/ BondEndNeighbors
    \/ FoundBonds
    \/ AnalyzeStructure
    \/ BondPrintResults
    \/ BondSysExit
    \/ Except

SpecBond == BondInit /\ [][BondNext]_vars

\* ------------------------------ check_phonon_stability.py: text and numbers
\* A line is the sequence of its characters. A float is kept exact as <<m, d>>, the
\* number m / 10^d, with d as small as possible.
Digits == <<"0", "1", "2", "3", "4", "5", "6", "7", "8", "9">>

IsDigit(c) == \E k \in DOMAIN Digits : Digits[k] = c

DigitValue(c) == (CHOOSE k \in DOMAIN Digits : Digits[k] = c) - 1

RECURSIVE Pow10(_)
Pow10(d) == IF d = 0 THEN 1 ELSE 10 * Pow10(d - 1)

\* str(n) for n >= 0
RECURSIVE DecimalDigits(_)
DecimalDigits(n) ==
    IF n < 10 THEN <<Digits[n + 1]>>
    ELSE Append(DecimalDigits(n \div 10), Digits[(n % 10) + 1])

\* int(s) for a sequence of digits (0 for the empty one)
RECURSIVE NumberOf(_)
NumberOf(s) ==
    IF s = <<>> THEN 0
    ELSE 10 * NumberOf(SubSeq(s, 1, Len(s) - 1)) + DigitValue(s[Len(s)])

\* s without its trailing zeros
RECURSIVE StripZeros(_)
StripZeros(s) ==
    IF s # <<>> /\ s[Len(s)] = "0" THEN StripZeros(SubSeq(s, 1, Len(s) - 1)) ELSE s

\* n written with exactly w digits (n < 10^w)
RECURSIVE ZeroPadded(_, _)
ZeroPadded(n, w) ==
    IF w = 0 THEN <<>> ELSE Append(ZeroPadded(n \div 10, w - 1), Digits[(n % 10) + 1])

\* f"{x:.6f}" for a float x of at most six decimals
FormatF6(x) ==
    LET magnitude == IF x[1] < 0 THEN -x[1] ELSE x[1]
    IN (IF x[1] < 0 THEN <<"-">> ELSE <<>>)
           \o DecimalDigits(magnitude \div Pow10(x[2]))
           \o <<".">>
           \o ZeroPadded(magnitude % Pow10(x[2]), x[2])
           \o [k \in 1..(6 - x[2]) |-> "0"]

\* float(s) succeeds on a text over [-0-9.]: an optional sign, then digits with at
\* most one point among them and at least one digit
IsFloatText(s) ==
    LET body == IF s # <<>> /\ s[1] = "-" THEN Tail(s) ELSE s
    IN /\ \A k \in DOMAIN body : body[k] # "-"
       /\ Cardinality({k \in DOMAIN body : body[k] = "."}) <= 1
       /\ \E k \in DOMAIN body : IsDigit(body[k])

\* float(s) for such a text
FloatOf(s) ==
    LET negative == s[1] = "-"
        body == IF negative THEN Tail(s) ELSE s
        points == {k \in DOMAIN body : body[k] = "."}
        point == IF points = {} THEN Len(body) + 1 ELSE CHOOSE k \in points : TRUE
        whole == SubSeq(body, 1, point - 1)
        decimals == StripZeros(SubSeq(body, point + 1, Len(body)))
        m == NumberOf(whole \o decimals)
    IN <<IF negative THEN -m ELSE m, Len(decimals)>>

\* x < y for floats; whole parts first, so that 1e9 is compared without scaling it
FloatLess(x, y) ==
    LET wx == x[1] \div Pow10(x[2])
        wy == y[1] \div Pow10(y[2])
    IN \/ wx < wy
       \/ /\ wx = wy
          /\ (x[1] % Pow10(x[2])) * Pow10(y[2]) < (y[1] % Pow10(y[2])) * Pow10(x[2])

\* w < 0
IsNegative(w) == w[1] < 0

\* min(x, y)
FloatMin(x, y) == IF FloatLess(y, x) THEN y ELSE x

\* min(freqs), freqs not empty
MinOf(ws) == CHOOSE w \in {ws[k] : k \in DOMAIN ws} : \A k \in DOMAIN ws : ~FloatLess(ws[k], w)

\* sum(1 for w in freqs if w < 0)
CountNegative(ws) == Cardinality({k \in DOMAIN ws : IsNegative(ws[k])})

\* the lists of a list joined into one: the frequencies of all files, the text of
\* all lines
RECURSIVE Concat(_)
Concat(lists) == IF lists = <<>> THEN <<>> ELSE Head(lists) \o Concat(Tail(lists))

\* the word w stands in line l at position p
HasAt(l, p, w) == p + Len(w) - 1 <= Len(l) /\ SubSeq(l, p, p + Len(w) - 1) = w

\* \s
IsSpace(c) == c \in {" ", "\t", "\n"}

\* [\-0-9\.]
IsNumberChar(c) == c = "-" \/ c = "." \/ IsDigit(c)

\* where the group begins when ")=" stands at q: after ")=" and all the whitespace
GroupStart(l, q) ==
    LET after == {g \in (q + 2)..Len(l) : ~IsSpace(l[g])}
    IN IF after = {} THEN Len(l) + 1 ELSE CHOOSE g \in after : \A h \in after : g <= h

\* the longest run of number characters from g on
Group(l, g) ==
    LET stops == {e \in g..Len(l) : ~IsNumberChar(l[e])}
        end == IF stops = {} THEN Len(l) ELSE (CHOOSE e \in stops : \A f \in stops : e <= f) - 1
    IN SubSeq(l, g, end)

\* FREQ_REGEX.search(line): "freq(" at the leftmost p, anything up to the nearest ")="
\* (no space between the two), whitespace, then the group of number characters;
\* m.group(1), or <<>> for no match
FREQ_REGEX_search(l) ==
    LET matches == {m \in (1..Len(l)) \X (1..Len(l)) :
                        /\ HasAt(l, m[1], <<"f", "r", "e", "q", "(">>)
                        /\ m[2] >= m[1] + 5
                        /\ HasAt(l, m[2], <<")", "=">>)
                        /\ GroupStart(l, m[2]) <= Len(l)
                        /\ IsNumberChar(l[GroupStart(l, m[2])])}
    IN IF matches = {} THEN <<>>
       ELSE LET first == CHOOSE m \in matches : \A n \in matches :
                            m[1] < n[1] \/ (m[1] = n[1] /\ m[2] <= n[2])
            IN Group(l, GroupStart(l, first[2]))

\* ------------------------------------------ check_phonon_stability.py: run
MaxFiles == 2       \* paths on the command line
MaxLines == 2       \* lines of one file

\* sys.argv[1:], each path by what it names: a readable file, nothing, or something
\* that exists and cannot be opened for reading (a directory, a file without permission)
PathStates == {"ok", "missing", "unreadable"}

\* the frequencies written to the modelled files: 66.712 and -5.2 cm-1
Frequencies == {<<66712, 3>>, <<-52, 1>>}

\* the line mock_qe_calculations.py writes to dyn0 for mode idx of frequency f_cm
MockDynLine(idx, f_cm) ==
    <<" ", " ", " ", " ", "f", "r", "e", "q", "(", " ", " ", " ">>
        \o DecimalDigits(idx)
        \o <<")", " ", "=", " ", " ", " ", " ">>
        \o FormatF6(f_cm)
        \o <<" ", "[", "c", "m", "-", "1", "]", "\n">>

\* the same line without a space between ")" and "="
TightLine(idx, f_cm) ==
    <<" ", " ", " ", " ", "f", "r", "e", "q", "(", " ", " ", " ">>
        \o DecimalDigits(idx)
        \o <<")", "=", " ", " ", " ", " ">>
        \o FormatF6(f_cm)
        \o <<" ", "[", "c", "m", "-", "1", "]", "\n">>

\* the q-point line of the dyn0 header
HeaderLine ==
    <<"q", " ", "=", " ", " ", " ", " ", "0", ".", "0", "0", "0", "0", "\n">>

\* a frequency line whose number is a row of dashes
DashLine ==
    <<" ", " ", " ", " ", "f", "r", "e", "q", "(", " ", " ", " ", "1", ")", "=",
      " ", "-", "-", "-", " ", "[", "c", "m", "-", "1", "]", "\n">>

MockDynLines == {MockDynLine(1, f) : f \in Frequencies}

TightLines == {TightLine(1, f) : f \in Frequencies}

Lines == MockDynLines \cup TightLines \cup {HeaderLine, DashLine}

\* min_freq = 1e9
MinFreqInit == <<1000000000, 0>>

\* for p in paths: if not p.exists()
AnyExists(paths) == \E k \in DOMAIN paths : paths[k] # "missing"

AllExist(paths) == \A k \in DOMAIN paths : paths[k] # "missing"

PhononInit ==
    /\ pc = "main"
    /\ file_state = "ok"
    /\ quiet = FALSE
    /\ structure = <<>>
    /\ raised = "none"
    /\ exit_code = -1
    /\ stdout = <<>>
    /\ results = NoDict
    /\ cutoff_distance = DefaultCutoff
    /\ G = NoDict
    /\ i = 0
    /\ builds = 0
    /\ failed = {}
    /\ seen = NoDict
    /\ repeated = FALSE
    /\ threshold_energy = <<0, 1>>
    /\ light_bonds = <<>>
    /\ unique_bonds = <<>>
    /\ reported = {}
    /\ \E n \in 0..MaxFiles : files \in [1..n -> PathStates]
    /\ fidx = 0
    /\ nline = 0
    /\ line = <<>>
    /\ freqs = <<>>
    /\ parsed = <<>>
    /\ total = 0
    /\ imag = 0
    /\ min_freq = 0
    /\ NoCalls

\* main up to the call of analyse_files: the usage exit, the existence check of every
\* path, then the first lines of analyse_files (messages to stderr are not modelled)
PhononMain ==
    /\ pc = "main"
    /\ IF Len(files) = 0
       THEN /\ stdout' = Append(stdout, <<"doc">>)
            /\ exit_code' = 2
            /\ pc' = "exited"
            /\ UNCHANGED <<fidx, total, imag, min_freq>>
       ELSE IF ~AllExist(files)
       THEN /\ exit_code' = 2
            /\ pc' = "exited"
            /\ UNCHANGED <<stdout, fidx, total, imag, min_freq>>
       ELSE /\ pc' = "for_file"
            /\ fidx' = 1
            /\ total' = 0
            /\ imag' = 0
            /\ min_freq' = MinFreqInit
            /\ UNCHANGED <<exit_code, stdout>>
    /\ UNCHANGED <<file_state, quiet, structure, raised, results, parity_vars, bond_vars,
                   files, nline, line, freqs, parsed, call_vars>>

\* parse_frequencies(f): path.open; a failure becomes RuntimeError("Cannot read ...")
OpenFile ==
    /\ pc = "for_file"
    /\ fidx <= Len(files)
    /\ IF files[fidx] = "ok"
       THEN /\ pc' = "for_line"
            /\ raised' = raised
       ELSE /\ pc' = "runtime_error"
            /\ raised' = "RuntimeError"
    /\ freqs' = <<>>
    /\ nline' = 0
    /\ UNCHANGED <<file_state, quiet, structure, exit_code, stdout, results, parity_vars,
                   bond_vars, files, fidx, line, parsed, total, imag, min_freq, call_vars>>

\* for line in fh: the file hands over its next line
ReadLine ==
    /\ pc = "for_line"
    /\ nline < MaxLines
    /\ \E l \in Lines : line' = l
    /\ nline' = nline + 1
    /\ pc' = "match"
    /\ UNCHANGED <<file_state, quiet, structure, raised, exit_code, stdout, results,
                   parity_vars, bond_vars, files, fidx, freqs, parsed, total, imag, min_freq, call_vars>>

\* m = FREQ_REGEX.search(line); if m: freqs.append(float(m.group(1)));
\* a ValueError of float becomes RuntimeError("Cannot read ...")
MatchLine ==
    /\ pc = "match"
    /\ LET group == FREQ_REGEX_search(line)
       IN IF group = <<>>
          THEN /\ pc' = "for_line"
               /\ UNCHANGED <<freqs, raised>>
          ELSE IF IsFloatText(group)
          THEN /\ freqs' = Append(freqs, FloatOf(group))
               /\ pc' = "for_line"
               /\ raised' = raised
          ELSE /\ pc' = "runtime_error"
               /\ raised' = "RuntimeError"
               /\ freqs' = freqs
    /\ UNCHANGED <<file_state, quiet, structure, exit_code, stdout, results, parity_vars,
                   bond_vars, files, fidx, nline, line, parsed, total, imag, min_freq, call_vars>>

\* total and imag taken from this file alone (= in place of +=)
AccumulateLastOnly(counts, ws) == <<Len(ws), CountNegative(ws)>>

\* total += len(freqs); imag += sum(1 for w in freqs if w < 0), as <<total, imag>>
Accumulate(counts, ws) == <<counts[1] + Len(ws), counts[2] + CountNegative(ws)>>

\* the file is at its end: parse_frequencies raises for an empty list, or returns it
\* and analyse_files adds it to its counts
EndOfFile ==
    /\ pc = "for_line"
    /\ parsed' = Append(parsed, freqs)
    /\ IF freqs = <<>>
       THEN /\ pc' = "runtime_error"
            /\ raised' = "RuntimeError"
            /\ UNCHANGED <<fidx, total, imag, min_freq>>
       ELSE /\ total' = Accumulate(<<total, imag>>, freqs)[1]
            /\ imag' = Accumulate(<<total, imag>>, freqs)[2]
            /\ min_freq' = FloatMin(min_freq, MinOf(freqs))
            /\ fidx' = fidx + 1
            /\ pc' = "for_file"
            /\ raised' = raised
    /\ UNCHANGED <<file_state, quiet, structure, exit_code, stdout, results, parity_vars,
                   bond_vars, files, nline, line, freqs, call_vars>>

\* analyse_files has returned: the verdict line and the exit code
Verdict ==
    /\ pc = "for_file"
    /\ fidx > Len(files)
    /\ IF imag = 0
       THEN /\ stdout' = Append(stdout, <<"stable", total, min_freq>>)
            /\ exit_code' = 0
       ELSE /\ stdout' = Append(stdout, <<"imaginary", imag, total, min_freq>>)
            /\ exit_code' = 1
    /\ pc' = "exited"
    /\ UNCHANGED <<file_state, quiet, structure, raised, results, parity_vars, bond_vars,
                   phonon_vars, call_vars>>

\* except RuntimeError: the error goes to stderr, sys.exit(2)
PhononExcept ==
    /\ pc = "runtime_error"
    /\ exit_code' = 2
    /\ pc' = "exited"
    /\ UNCHANGED <<file_state, quiet, structure, raised, stdout, results, parity_vars,
                   bond_vars, phonon_vars, call_vars>>

PhononNext ==
    \/ PhononMain
    \/ OpenFile
    \/ ReadLine
    \/ MatchLine
    \/ EndOfFile
    \/ Verdict
    \/ PhononExcept

SpecPhonon == PhononInit /\ [][PhononNext]_vars

\* ------------------------- find_light_atom_bonds called twice on a structure
TwiceInit ==
    /\ pc = "load"
    /\ file_state = "ok"
    /\ quiet = FALSE
    /\ structure \in Structures(BondElements)
    /\ raised = "none"
    /\ exit_code = -1
    /\ stdout = <<>>
    /\ results = NoDict
    /\ cutoff_distance = DefaultCutoff
    /\ G = NoDict
    /\ i = 0
    /\ builds = 0
    /\ failed = {}
    /\ seen = NoDict
    /\ repeated = FALSE
    /\ threshold_energy = <<0, 1>>
    /\ light_bonds = <<>>
    /\ unique_bonds = <<>>
    /\ reported = {}
    /\ NoPhononRun
    /\ NoCalls

\* the first call has returned: its list is kept, the oracle's answers (the records in
\* the order they came, and the atoms whose lookup raised) are fixed, and
\* find_light_atom_bonds is called again on the same structure
CallAgain ==
    /\ pc = "found"
    /\ calls = 0
    /\ calls' = 1
    /\ returned' = <<unique_bonds>>
    /\ args' = [oracle |-> light_bonds]
    /\ i' = 0
    /\ light_bonds' = <<>>
    /\ unique_bonds' = <<>>
    /\ reported' = {}
    /\ stdout' = Append(stdout, "analyzing")
    /\ pc' = "for_site"
    /\ UNCHANGED <<file_state, quiet, structure, raised, exit_code, results,
                   cutoff_distance, G, builds, failed, seen, repeated,
                   threshold_energy, phonon_vars, written, dyn_file>>

\* in the second call the lookup of an atom raises exactly when it raised in the first
TwiceLookupRaises ==
    /\ BondLookupRaises
    /\ calls = 1 => i \in failed

TwiceLookupReturns ==
    /\ BondLookupReturns
    /\ calls = 1 => i \notin failed

\* in the second call the records come as they came in the first
TwiceAppendBond ==
    /\ AppendBond
    /\ calls = 1 =>
        /\ Len(light_bonds) < Len(args.oracle)
        /\ light_bonds' = SubSeq(args.oracle, 1, Len(light_bonds) + 1)

TwiceEndNeighbors ==
    /\ BondEndNeighbors
    /\ calls = 1 =>
        \/ Len(light_bonds) = Len(args.oracle)
        \/ /\ Len(light_bonds) < Len(args.oracle)
           /\ args.oracle[Len(light_bonds) + 1].atom1_idx # i

TwiceNext ==
    \/ BondLoadStructure
    \/ SkipHeavySite
    \/ TwiceLookupRaises
    \/ TwiceLookupReturns
    \/ TwiceAppendBond
    \/ TwiceEndNeighbors
    \/ FoundBonds
    \/ CallAgain

SpecTwice == TwiceInit /\ [][TwiceNext]_vars

\* ------------------------------ estimate_phonon_energy in floating point
\* The function computes in binary floating point: every operation returns the float
\* nearest to its exact result (ties to the even mantissa). A float is modelled as
\* <<m, e>>, the number m * 2^e with a mantissa m of exactly MantissaBits bits (53 in
\* the program); all the numbers of the function are positive.
MantissaBits == 4

RECURSIVE Pow2(_)
Pow2(n) == IF n = 0 THEN 1 ELSE 2 * Pow2(n - 1)

\* the number of bits of n
RECURSIVE Bits(_)
Bits(n) == IF n = 0 THEN 0 ELSE 1 + Bits(n \div 2)

\* the float nearest to n * 2^e, n >= 1
Fl(n, e) ==
    LET b == Bits(n)
    IN IF b <= MantissaBits
       THEN <<n * Pow2(MantissaBits - b), e - (MantissaBits - b)>>
       ELSE LET k == b - MantissaBits
                q == n \div Pow2(k)
                rem == n % Pow2(k)
                half == Pow2(k - 1)
                up == rem > half \/ (rem = half /\ q % 2 = 1)
            IN IF up /\ q + 1 = Pow2(MantissaBits)
               THEN <<Pow2(MantissaBits - 1), e + k + 1>>
               ELSE <<IF up THEN q + 1 ELSE q, e + k>>

\* n with its last bit set when the exact result has more digits than n
Sticky(n, inexact) == IF inexact /\ n % 2 = 0 THEN n + 1 ELSE n

\* x * y
FlMul(x, y) == Fl(x[1] * y[1], x[2] + y[2])

\* x / y: the quotient to MantissaBits + 2 bits and a sticky bit, then rounded
FlDiv(x, y) ==
    LET shift == MantissaBits + 2
        n == x[1] * Pow2(shift)
    IN Fl(Sticky(n \div y[1], n % y[1] # 0), x[2] - y[2] - shift)

\* the integer square root
RECURSIVE ISqrt(_)
ISqrt(n) ==
    IF n < 2 THEN n
    ELSE LET r == 2 * ISqrt(n \div 4)
         IN IF (r + 1) * (r + 1) <= n THEN r + 1 ELSE r

\* np.sqrt(x)
FlSqrt(x) ==
    LET odd == x[2] % 2 = 1
        m == IF odd THEN 2 * x[1] ELSE x[1]
        e == IF odd THEN x[2] - 1 ELSE x[2]
        shift == MantissaBits + 2
        n == m * Pow2(2 * shift)
        r == ISqrt(n)
    IN Fl(Sticky(r, r * r # n), (e \div 2) - shift)

\* force_constant_scale = 100.0
force_constant_scale == Fl(100, 0)

\* amu_to_ev_per_ang2 = 1.036427e-4, as 1739 * 2^-24
amu_to_ev_per_ang2 == Fl(1739, -24)

\* HBAR = 6.582119569e-16, as 1518 * 2^-61
HBAR == Fl(1518, -61)

\* PI = np.pi, as 1608 * 2^-9
PI == Fl(1608, -9)

\* the force constant with the square of the distance as a factor
k_force_times(r_angstrom) == FlMul(force_constant_scale, FlMul(r_angstrom, r_angstrom))

\* k_force = force_constant_scale / (r_angstrom ** 2)
k_force(r_angstrom) == FlDiv(force_constant_scale, FlMul(r_angstrom, r_angstrom))

\* estimate_phonon_energy, operation by operation; returns energy_eV
energy_eV(bond_distance, reduced_mass) ==
    LET mu_ev_units == FlMul(reduced_mass, amu_to_ev_per_ang2)
        omega == FlSqrt(FlDiv(k_force(bond_distance), mu_ev_units))
        energy_meV == FlMul(FlDiv(FlMul(HBAR, omega), PI), Fl(1000, 0))
    IN FlDiv(energy_meV, Fl(1000, 0))

\* bond distances from 1 to 4 Angstrom: every float of these two binades
DistanceFloats ==
    {<<m, e>> : m \in Pow2(MantissaBits - 1)..(Pow2(MantissaBits) - 1),
                e \in {1 - MantissaBits, 2 - MantissaBits}}

\* _calculate_reduced_mass in floating point
reduced_mass_float(element1, element2) ==
    FlDiv(Fl(AtomicMass(element1) * AtomicMass(element2), 0),
          Fl(AtomicMass(element1) + AtomicMass(element2), 0))

ReducedMasses == {reduced_mass_float("H", "H"), reduced_mass_float("H", "Fe")}

\* the reduced mass is fixed; the function has not been called yet
EnergyInit ==
    /\ pc = "estimate"
    /\ file_state = "ok"
    /\ quiet = FALSE
    /\ structure = <<>>
    /\ raised = "none"
    /\ exit_code = -1
    /\ stdout = <<>>
    /\ results = NoDict
    /\ cutoff_distance = DefaultCutoff
    /\ G = NoDict
    /\ i = 0
    /\ builds = 0
    /\ failed = {}
    /\ seen = NoDict
    /\ repeated = FALSE
    /\ threshold_energy = <<0, 1>>
    /\ light_bonds = <<>>
    /\ unique_bonds = <<>>
    /\ reported = {}
    /\ NoPhononRun
    /\ \E mu \in ReducedMasses : args = [reduced_mass |-> mu]
    /\ written = NoDict
    /\ calls = 0
    /\ returned = <<>>
    /\ dyn_file = <<>>

\* one call of estimate_phonon_energy; the last two calls are kept
EstimatePhononEnergy ==
    /\ pc = "estimate"
    /\ \E d \in DistanceFloats :
        returned' = (IF returned = <<>> THEN <<>> ELSE <<returned[Len(returned)]>>)
                        \o <<[bond_distance |-> d,
                              energy |-> energy_eV(d, args.reduced_mass)]>>
    /\ UNCHANGED <<cli_vars, parity_vars, bond_vars, phonon_vars, args, written, calls, dyn_file>>

EnergyNext == EstimatePhononEnergy

SpecEnergy == EnergyInit /\ [][EnergyNext]_vars

\* -------------------------------------------------------- qe_builder.py run
\* A file name is kept as its three parts <<head, stem, tail>>.
FileName(head, stem, tail) == <<head, stem, tail>>

\* values of -o/--output: the default and another stem
Outputs == {"pwscf", "Li2NH"}

\* values of --prefix: absent (None), and two names
Prefixes == {"None", "pwscf", "Li2NH"}

\* values of --nproc: the default 4, and others
Nprocs == {1, 4, 8}

\* os.path.splitext(os.path.basename(args.structure_file))[0] of the structure file Li2NH.cif
StructureFileStem == "Li2NH"

\* main: prefix = args.prefix if args.prefix else the stem of the structure file
PrefixOf(a) == IF a.prefix # "None" THEN a.prefix ELSE StructureFileStem

\* generate_run_script(prefix, output_file): what the script sets and reads
RunScript(prefix) ==
    [kind |-> "run_script",
     NPROC |-> 4,
     pw_input |-> FileName("", prefix, "_scf.in"),
     ph_input |-> FileName("", prefix, "_ph.in"),
     post_inputs |-> {FileName("", prefix, "_dynmat.in"),
                      FileName("", prefix, "_q2r.in"),
                      FileName("", prefix, "_matdyn.in")}]

QEInit ==
    /\ pc = "load"
    /\ file_state \in FileStates
    /\ quiet = FALSE
    /\ structure = <<>>
    /\ raised = "none"
    /\ exit_code = -1
    /\ stdout = <<>>
    /\ results = NoDict
    /\ cutoff_distance = DefaultCutoff
    /\ G = NoDict
    /\ i = 0
    /\ builds = 0
    /\ failed = {}
    /\ seen = NoDict
    /\ repeated = FALSE
    /\ threshold_energy = <<0, 1>>
    /\ light_bonds = <<>>
    /\ unique_bonds = <<>>
    /\ reported = {}
    /\ NoPhononRun
    /\ args \in [output : Outputs, prefix : Prefixes, phonons : BOOLEAN,
                 full : BOOLEAN, nproc : Nprocs]
    /\ written = NoDict
    /\ calls = 0
    /\ returned = <<>>
    /\ dyn_file = <<>>

\* load_structure, the prefix, the two lines printed
QELoadStructure ==
    /\ pc = "load"
    /\ \/ /\ file_state = "missing"
          /\ raised' = "FileNotFoundError"
          /\ pc' = "except"
          /\ stdout' = stdout
       \/ /\ file_state = "unparseable"
          /\ raised' = "ValueError"
          /\ pc' = "except"
          /\ stdout' = stdout
       \/ /\ file_state = "ok"
          /\ raised' = raised
          /\ pc' = "scf"
          /\ stdout' = stdout \o <<"loaded", "generating", "formula">>
    /\ UNCHANGED <<file_state, quiet, structure, exit_code, results, parity_vars, bond_vars,
                   phonon_vars, call_vars>>

\* generate_scf_input, write_scf_input to {output}_scf.in
WriteScfInput ==
    /\ pc = "scf"
    /\ written' = SetItem(written, FileName("", args.output, "_scf.in"),
                          [kind |-> "scf", prefix |-> PrefixOf(args)])
    /\ stdout' = Append(stdout, "created_scf")
    /\ pc' = "phonons"
    /\ UNCHANGED <<file_state, quiet, structure, raised, exit_code, results, parity_vars,
                   bond_vars, phonon_vars, args, calls, returned, dyn_file>>

\* if args.phonons or args.full: write_phonon_input to {output}_ph.in
WritePhononInput ==
    /\ pc = "phonons"
    /\ IF args.phonons \/ args.full
       THEN /\ written' = SetItem(written, FileName("", args.output, "_ph.in"),
                                  [kind |-> "ph", prefix |-> PrefixOf(args)])
            /\ stdout' = Append(stdout, "created_ph")
       ELSE UNCHANGED <<written, stdout>>
    /\ pc' = "full"
    /\ UNCHANGED <<file_state, quiet, structure, raised, exit_code, results, parity_vars,
                   bond_vars, phonon_vars, args, calls, returned, dyn_file>>

\* if args.full: generate_run_script(prefix, run_{prefix}.sh) and the summary
GenerateRunScript ==
    /\ pc = "full"
    /\ IF args.full
       THEN /\ written' = SetItem(written, FileName("run_", PrefixOf(args), ".sh"),
                                  RunScript(PrefixOf(args)))
            /\ stdout' = stdout \o <<"created_run_script", "workflow">>
       ELSE UNCHANGED <<written, stdout>>
    /\ pc' = "done"
    /\ UNCHANGED <<file_state, quiet, structure, raised, exit_code, results, parity_vars,
                   bond_vars, phonon_vars, args, calls, returned, dyn_file>>

\* the last line; main returns and the interpreter exits with 0
QECompleted ==
    /\ pc = "done"
    /\ stdout' = Append(stdout, "completed")
    /\ exit_code' = 0
    /\ pc' = "exited"
    /\ UNCHANGED <<file_state, quiet, structure, raised, results, parity_vars, bond_vars,
                   phonon_vars, call_vars>>

\* except Exception: print the error, sys.exit(1)
QEExcept ==
    /\ pc = "except"
    /\ stdout' = Append(stdout, "error")
    /\ exit_code' = 1
    /\ pc' = "exited"
    /\ UNCHANGED <<file_state, quiet, structure, raised, results, parity_vars, bond_vars,
                   phonon_vars, call_vars>>

QENext ==
    \/ QELoadStructure
    \/ WriteScfInput
    \/ WritePhononInput
    \/ GenerateRunScript
    \/ QECompleted
    \/ QEExcept

SpecQE == QEInit /\ [][QENext]_vars

\* ------------------- process_strain_scan.check_phonon_stability on a dyn file
\* the first position from p on that holds no whitespace (Len + 1 when there is none)
SkipSpaces(c, p) ==
    LET rest == {g \in p..Len(c) : ~IsSpace(c[g])}
    IN IF rest = {} THEN Len(c) + 1 ELSE CHOOSE g \in rest : \A h \in rest : g <= h

\* the first position from p on that holds no digit: the end of \d*
DigitsEnd(c, p) ==
    LET rest == {g \in p..Len(c) : ~IsDigit(c[g])}
    IN IF rest = {} THEN Len(c) + 1 ELSE CHOOSE g \in rest : \A h \in rest : g <= h

\* the first position from p on that holds no number character: the end of [-\d.]*
NumberEnd(c, p) ==
    LET rest == {g \in p..Len(c) : ~IsNumberChar(c[g])}
    IN IF rest = {} THEN Len(c) + 1 ELSE CHOOSE g \in rest : \A h \in rest : g <= h

\* the positions of one match of freq\(\s*\d+\)\s*=\s*([-\d.]+)\s*\[cm-1\] at p:
\* the group is c[group_start .. group_end - 1], the match ends before match_end
FreqMatchPositions(c, p) ==
    LET digits_start == SkipSpaces(c, p + 5)
        digits_end == DigitsEnd(c, digits_start)
        equals == SkipSpaces(c, digits_end + 1)
        group_start == SkipSpaces(c, equals + 1)
        group_end == NumberEnd(c, group_start)
        unit == SkipSpaces(c, group_end)
    IN [digits_start |-> digits_start, digits_end |-> digits_end, equals |-> equals,
        group_start |-> group_start, group_end |-> group_end, unit |-> unit,
        match_end |-> unit + 6]

\* the pattern matches at p
FreqMatchAt(c, p) ==
    LET m == FreqMatchPositions(c, p)
    IN /\ HasAt(c, p, <<"f", "r", "e", "q", "(">>)
       /\ m.digits_end > m.digits_start
       /\ HasAt(c, m.digits_end, <<")">>)
       /\ HasAt(c, m.equals, <<"=">>)
       /\ m.group_end > m.group_start
       /\ HasAt(c, m.unit, <<"[", "c", "m", "-", "1", "]">>)

\* re.findall(pattern, content) from position p on: the groups of the matches, left
\* to right, each search starting where the last match ended
RECURSIVE findall(_, _)
findall(c, p) ==
    IF p > Len(c) THEN <<>>
    ELSE IF FreqMatchAt(c, p)
    THEN LET m == FreqMatchPositions(c, p)
         IN <<SubSeq(c, m.group_start, m.group_end - 1)>> \o findall(c, m.match_end)
    ELSE findall(c, p + 1)

\* check_phonon_stability(dyn_file) of process_strain_scan.py on the content of the
\* file: (stable, min_freq), or the ValueError of float()
check_phonon_stability(content) ==
    LET freq_matches == findall(content, 1)
    IN IF freq_matches = <<>>
       THEN [raised |-> "none", stable |-> TRUE, min_freq |-> <<0, 0>>]
       ELSE IF \E k \in DOMAIN freq_matches : ~IsFloatText(freq_matches[k])
       THEN [raised |-> "ValueError", stable |-> FALSE, min_freq |-> <<0, 0>>]
       ELSE LET frequencies == [k \in DOMAIN freq_matches |-> FloatOf(freq_matches[k])]
            IN [raised |-> "none",
                stable |-> ~IsNegative(MinOf(frequencies)),
                min_freq |-> MinOf(frequencies)]

\* One dyn file, given to check_phonon_stability.py as its only path and to
\* process_strain_scan.check_phonon_stability.
DynInit ==
    /\ pc = "main"
    /\ file_state = "ok"
    /\ quiet = FALSE
    /\ structure = <<>>
    /\ raised = "none"
    /\ exit_code = -1
    /\ stdout = <<>>
    /\ results = NoDict
    /\ cutoff_distance = DefaultCutoff
    /\ G = NoDict
    /\ i = 0
    /\ builds = 0
    /\ failed = {}
    /\ seen = NoDict
    /\ repeated = FALSE
    /\ threshold_energy = <<0, 1>>
    /\ light_bonds = <<>>
    /\ unique_bonds = <<>>
    /\ reported = {}
    /\ files = <<"ok">>
    /\ fidx = 0
    /\ nline = 0
    /\ line = <<>>
    /\ freqs = <<>>
    /\ parsed = <<>>
    /\ total = 0
    /\ imag = 0
    /\ min_freq = 0
    /\ args = NoDict
    /\ written = NoDict
    /\ calls = 0
    /\ returned = <<>>
    /\ \E n \in 0..MaxLines : dyn_file \in [1..n -> Lines]

\* for line in fh: the next line of the dyn file
DynReadLine ==
    /\ ReadLine
    /\ nline < Len(dyn_file)
    /\ line' = dyn_file[nline']

\* the dyn file is at its end
DynEndOfFile ==
    /\ EndOfFile
    /\ nline = Len(dyn_file)

\* process_strain_scan main: if dyn_file.exists(): stable, min_freq =
\* check_phonon_stability(dyn_file), on dyn_file.read_text()
CheckPhononStability ==
    /\ calls = 0
    /\ calls' = 1
    /\ returned' = <<check_phonon_stability(Concat(dyn_file))>>
    /\ UNCHANGED <<cli_vars, parity_vars, bond_vars, phonon_vars, args, written, dyn_file>>

DynNext ==
    \/ PhononMain
    \/ OpenFile
    \/ DynReadLine
    \/ MatchLine
    \/ DynEndOfFile
    \/ Verdict
    \/ PhononExcept
    \/ CheckPhononStability

SpecDyn == DynInit /\ [][DynNext]_vars

\* ------------------------------------------------------------------ claims
\* analyze_structure has returned its results dict
Completed == DOMAIN results # {}

\* the ends of edges at node n, read off the edge set: a loop {n} has both ends at n
EdgeEnds(g, n) ==
    Cardinality({e \in Edges(g) : n \in e[1]}) + Cardinality({e \in Edges(g) : e[1] = {n}})

OddNodes(g) == {n \in DOMAIN g : EdgeEnds(g, n) % 2 = 1}

Range(f) == {f[x] : x \in DOMAIN f}

\* the edges the oracle's records ask for: each pair with the distance of its first
\* record within cutoff
SeenEdges == {<<p, seen[p]>> : p \in DOMAIN seen}

\* C1: the parity run exits 0 exactly when the analysis completed with K = 0, 1 exactly
\* when it completed with K # 0, 2 exactly when an exception reached main's handler;
\* no other code is produced and a computed verdict never becomes code 2.
C1_ParityExitCodes ==
    pc = "exited" =>
        /\ exit_code \in {0, 1, 2}
        /\ (exit_code = 0) <=> (Completed /\ raised = "none" /\ results.K_parity = 0)
        /\ (exit_code = 1) <=> (Completed /\ raised = "none" /\ results.K_parity # 0)
        /\ (exit_code = 2) <=> (raised # "none")
        /\ Completed => exit_code # 2

C1_Witness ==
    /\ pc = "exited"
    /\ ~quiet
    /\ exit_code = 1
    /\ Completed
    /\ results.K_parity = 2
    /\ failed # {}

\* C2: K is the number of nodes of odd degree (the degree counts the edge ends at the
\* node, so a loop counts twice, as in networkx), K is the sum of degree mod 2 over the
\* nodes, the odd-vertex list holds exactly the odd nodes, each once, and the pass
\* flag is K = 0.
C2_ParityCountsOddNodes ==
    Completed =>
        /\ results.K_parity = Cardinality(OddNodes(G))
        /\ results.K_parity = SumOver([n \in DOMAIN G |-> EdgeEnds(G, n) % 2], DOMAIN G)
        /\ Range(results.odd_vertices) = OddNodes(G)
        /\ Len(results.odd_vertices) = Cardinality(Range(results.odd_vertices))
        /\ results.passes_parity_test <=> (results.K_parity = 0)

\* the 4-cycle: every node of degree 2, K = 0, pass
C2_Witness ==
    /\ Completed
    /\ {e[1] : e \in Edges(G)} = {{0, 1}, {1, 2}, {2, 3}, {0, 3}}
    /\ results.K_parity = 0
    /\ results.odd_vertices = <<>>
    /\ results.passes_parity_test
    /\ results.graph_stats.min_degree = 2
    /\ results.graph_stats.max_degree = 2

\* C5: the graph built has no self-loop.
C5_NoSelfLoop == \A n \in DOMAIN G : ~has_edge(G, n, n)

\* C6: at every point of the build and in its result an unordered pair of atoms
\* carries at most one edge, also when it is reported from both ends or repeatedly.
C6_OneEdgePerPair ==
    /\ \A e1, e2 \in Edges(G) : e1[1] = e2[1] => e1 = e2
    /\ number_of_edges(G) = Cardinality({e[1] : e \in Edges(G)})

C6_Witness ==
    /\ pc = "calc"
    /\ repeated
    /\ i = 2
    /\ Edges(G) = {<<{0, 1}, DefaultCutoff - 1>>}

\* C7: every edge has a distance within cutoff; a pair is an edge exactly when a record
\* within cutoff was returned for it by a lookup that did not raise; the distance kept
\* is that of the first such record, whatever comes later.
C7_EdgesFromRecords ==
    /\ \A e \in Edges(G) : e[2] <= cutoff_distance
    /\ Edges(G) = SeenEdges

C7_Witness ==
    /\ pc = "calc"
    /\ repeated
    /\ cutoff_distance = DefaultCutoff
    /\ Edges(G) = {<<{0, 1}, DefaultCutoff>>, <<{1}, DefaultCutoff - 1>>}

\* C8: once the node loop has run, the node set is exactly 0..N-1, whatever the oracle
\* returns and whichever lookups raise; edges bring in no other node.
C8_NodesAreSites ==
    builds > 0 =>
        /\ DOMAIN G = SiteIndices(structure)
        /\ \A n \in DOMAIN G : DOMAIN G[n] \subseteq SiteIndices(structure)
        /\ failed \subseteq DOMAIN G

C8_Witness ==
    /\ pc = "calc"
    /\ NumSites(structure) = 2
    /\ failed = {1}
    /\ degree(G, 0) = 0
    /\ degree(G, 1) = 0
    /\ DOMAIN G = {0, 1}

\* C9: a lookup that raises adds no edge, the loop goes on with the next atom and no
\* exception leaves the build; an edge at an atom whose lookup raised comes from the
\* successful lookup of its other end, and the edge set is the one the records of the
\* successful lookups give.
C9_FailedLookupSkipsAtom ==
    /\ [][failed' # failed =>
            (G' = G /\ i' = i + 1 /\ pc' = "for_atom" /\ raised' = "none")]_vars
    /\ [](\A u \in failed : u < i /\ \A v \in DOMAIN G[u] : v \notin failed)
    /\ [](pc = "calc" => Edges(G) = SeenEdges)

C9_Witness ==
    /\ pc = "calc"
    /\ failed = {0}
    /\ Edges(G) = {<<{0, 1}, DefaultCutoff>>}

\* C3: the bond-quantum run exits 0 exactly when the analysis completed with a pass
\* verdict, 1 exactly when it completed with a fail verdict, and 2 exactly when the
\* structure file is missing or unparseable, in quiet and non-quiet mode.
C3_BondExitCodes ==
    (pc = "exited" /\ (file_state = "ok" => NumSites(structure) > 0)) =>
        /\ (exit_code = 0) <=> (Completed /\ results.passes_energy_test)
        /\ (exit_code = 1) <=> (Completed /\ ~results.passes_energy_test)
        /\ (exit_code = 2) <=> (file_state # "ok")

\* C4: a run on a loaded structure (of at least one atom) whose bond list is empty
\* does not raise and exits with code 1, in quiet and non-quiet mode.
C4_NoBondsExitsOne ==
    (pc = "exited" /\ Completed /\ NumSites(structure) > 0 /\ results.light_bonds = <<>>) =>
        (raised = "none" /\ exit_code = 1)

\* C10: a lookup that raises for a light origin contributes no bond, keeps the bonds
\* collected so far, and the loop goes on with the next atom; no bond has an origin
\* whose lookup raised, and no exception leaves the selector.
C10_FailedOriginSkipped ==
    /\ [][failed' # failed =>
            (light_bonds' = light_bonds /\ i' = i + 1 /\ pc' = "for_site" /\ raised' = "none")]_vars
    /\ [](\A k \in DOMAIN light_bonds : light_bonds[k].atom1_idx \notin failed)
    /\ [](\A k \in DOMAIN unique_bonds : unique_bonds[k].atom1_idx \notin failed)
    /\ [](pc \in {"for_site", "for_bond", "found"} => raised = "none")

C10_Witness ==
    /\ pc = "found"
    /\ failed = {1}
    /\ Len(light_bonds) = 2
    /\ Len(unique_bonds) = 1
    /\ unique_bonds[1].atom1_idx = 0
    /\ unique_bonds[1].atom2_idx = 1

\* C11: a lookup that raises for an atom of a loaded structure never makes the
\* bond-quantum run exit 2: the run completes and exits 0 or 1 by the verdict over the
\* bonds that remain (as the parity run does by the K of the sparser graph).
C11_LookupFailureNeverExitsTwo ==
    (pc = "exited" /\ file_state = "ok" /\ failed # {}) =>
        /\ raised = "none"
        /\ Completed
        /\ exit_code \in {0, 1}
        /\ (exit_code = 0) <=> (Completed /\ results.passes_energy_test)

\* C12: in the list find_light_atom_bonds returns no unordered pair of atom indices
\* occurs twice; the bond kept for a pair is the first one collected for it; the kept
\* bonds stand in the order in which their pairs were first collected.
C12_OneBondPerPairFirstKept ==
    pc = "found" =>
        LET pair(b) == {b.atom1_idx, b.atom2_idx}
            collected(b) == {k \in DOMAIN light_bonds : pair(light_bonds[k]) = pair(b)}
        IN /\ \A m, n \in DOMAIN unique_bonds :
                m # n => pair(unique_bonds[m]) # pair(unique_bonds[n])
           /\ \A m \in DOMAIN unique_bonds :
                /\ collected(unique_bonds[m]) # {}
                /\ unique_bonds[m] = light_bonds[Min(collected(unique_bonds[m]))]
           /\ \A m, n \in DOMAIN unique_bonds :
                m < n => Min(collected(unique_bonds[m])) < Min(collected(unique_bonds[n]))

\* the pair {0, 1} collected from both ends with different distances, and one other pair
C12_Witness ==
    /\ pc = "found"
    /\ Len(light_bonds) = 3
    /\ Len(unique_bonds) = 2
    /\ light_bonds[1].atom1_idx = 0 /\ light_bonds[1].atom2_idx = 1
    /\ light_bonds[3].atom1_idx = 1 /\ light_bonds[3].atom2_idx = 0
    /\ light_bonds[1].distance # light_bonds[3].distance
    /\ unique_bonds[1] = light_bonds[1]

\* C13: the oracle is asked only about light atoms and no record is dropped for its
\* distance; every bond has a light atom1, both_light says whether atom2 is light too;
\* the pairs of the returned list are exactly the pairs {i, j} of the records returned
\* for light atoms i, so a pair of two non-light atoms is never among them.
C13_LightOriginsEveryRecord ==
    LET light(u) == structure[u + 1] \in LIGHT_ATOMS
        well_formed(b) ==
            /\ light(b.atom1_idx)
            /\ b.atom1_element = structure[b.atom1_idx + 1]
            /\ b.atom2_element = structure[b.atom2_idx + 1]
            /\ b.both_light <=> light(b.atom2_idx)
    IN /\ pc = "for_bond" => light(i)
       /\ pc \in {"for_site", "for_bond", "found"} => \A u \in failed : light(u)
       /\ \A r \in reported : light(r[1])
       /\ \A k \in DOMAIN light_bonds : well_formed(light_bonds[k])
       /\ \A k \in DOMAIN unique_bonds : well_formed(unique_bonds[k])
       /\ pc = "found" =>
            {{unique_bonds[k].atom1_idx, unique_bonds[k].atom2_idx} : k \in DOMAIN unique_bonds}
                = {{r[1], r[2]} : r \in reported}
       /\ pc = "found" =>
            \A r \in reported : \E k \in DOMAIN light_bonds :
                /\ light_bonds[k].atom1_idx = r[1]
                /\ light_bonds[k].atom2_idx = r[2]
                /\ light_bonds[k].distance = r[3]

\* hydrogen 0 with the iron atom 1 beyond the parity cutoff and with its own image
C13_Witness ==
    /\ pc = "found"
    /\ structure = <<"H", "Fe">>
    /\ reported = {<<0, 1, DefaultCutoff + 1>>, <<0, 0, DefaultCutoff>>}
    /\ Len(unique_bonds) = 2
    /\ \E k \in DOMAIN unique_bonds :
        /\ unique_bonds[k].atom2_idx = 1
        /\ unique_bonds[k].distance = DefaultCutoff + 1
        /\ ~unique_bonds[k].both_light
    /\ \E k \in DOMAIN unique_bonds :
        /\ unique_bonds[k].atom2_idx = 0
        /\ unique_bonds[k].both_light

\* C14: for a non-empty bond list the reported energy is the largest per-bond energy,
\* the verdict is pass exactly when that maximum is at least the threshold (equality
\* passes), and critical_bonds holds exactly the bonds whose energy is at least the
\* threshold.
C14_MaxEnergyDecides ==
    (Completed /\ "light_bonds" \in DOMAIN results /\ results.light_bonds # <<>>) =>
        LET bonds == results.light_bonds
            geq(a, b) == a[1] * b[2] >= b[1] * a[2]
        IN /\ \A k \in DOMAIN bonds :
                bonds[k].phonon_energy_eV =
                    <<bonds[k].reduced_mass[2],
                      bonds[k].distance * bonds[k].distance * bonds[k].reduced_mass[1]>>
           /\ \E k \in DOMAIN bonds : results.phonon_energy_eV = bonds[k].phonon_energy_eV
           /\ \A k \in DOMAIN bonds : geq(results.phonon_energy_eV, bonds[k].phonon_energy_eV)
           /\ results.passes_energy_test <=> geq(results.phonon_energy_eV, threshold_energy)
           /\ Range(results.critical_bonds) =
                {b \in Range(bonds) : geq(b.phonon_energy_eV, threshold_energy)}
           /\ Len(results.critical_bonds) = Cardinality(Range(results.critical_bonds))

\* the shortest bond (H-Fe) has less energy than the longer H-H bond, whose energy
\* equals the threshold: pass, one critical bond
C14_Witness ==
    /\ pc = "exited"
    /\ Completed
    /\ Len(results.light_bonds) = 2
    /\ results.shortest_bond.bond_type = <<"H", "Fe">>
    /\ results.shortest_bond.distance = DefaultCutoff
    /\ results.shortest_bond.phonon_energy_eV # results.phonon_energy_eV
    /\ results.phonon_energy_eV[1] * threshold_energy[2]
            = threshold_energy[1] * results.phonon_energy_eV[2]
    /\ results.passes_energy_test
    /\ Len(results.critical_bonds) = 1
    /\ exit_code = 0

\* the fields find_light_atom_bonds gives a bond
BondCore(b) ==
    <<b.atom1_idx, b.atom2_idx, b.atom1_element, b.atom2_element,
      b.distance, b.reduced_mass, b.bond_type, b.both_light>>

\* how many bonds of the list have the fields c
CountOf(bonds, c) == Cardinality({k \in DOMAIN bonds : BondCore(bonds[k]) = c})

AscendingDistance(bonds) ==
    \A m, n \in DOMAIN bonds : m < n => bonds[m].distance <= bonds[n].distance

\* C15: light_bonds of the results is the selector's list rearranged in ascending
\* distance (nothing added, dropped or doubled); shortest_bond is its first element
\* and no bond is shorter; critical_bonds is in ascending distance too.
C15_SortedByDistance ==
    /\ [][(pc = "found" /\ pc' # "found") =>
            /\ Len(results'.light_bonds) = Len(unique_bonds)
            /\ \A k \in DOMAIN unique_bonds :
                CountOf(results'.light_bonds, BondCore(unique_bonds[k]))
                    = CountOf(unique_bonds, BondCore(unique_bonds[k]))]_vars
    /\ []((Completed /\ "light_bonds" \in DOMAIN results) =>
            /\ AscendingDistance(results.light_bonds)
            /\ AscendingDistance(results.critical_bonds)
            /\ results.light_bonds # <<>> =>
                /\ results.shortest_bond = results.light_bonds[1]
                /\ \A k \in DOMAIN results.light_bonds :
                    results.shortest_bond.distance <= results.light_bonds[k].distance)

\* the bond collected first (origin 0) is the longer one and ends up second
C15_Witness ==
    /\ pc = "exited"
    /\ Completed
    /\ Len(results.light_bonds) = 2
    /\ results.light_bonds[1].atom1_idx = 1
    /\ results.light_bonds[1].distance = DefaultCutoff
    /\ results.light_bonds[2].atom1_idx = 0
    /\ results.light_bonds[2].distance = DefaultCutoff + 1
    /\ Len(results.critical_bonds) = 2
    /\ results.shortest_bond = results.light_bonds[1]

\* C16: when the selector returns no bond, analyze_structure returns a fail result
\* (no bonds, no shortest bond, energy 0 in eV and meV, fail, no critical bonds) that
\* carries the same keys as the result of the non-empty case.
C16_EmptyResultWellFormed ==
    (Completed /\ file_state = "ok" /\ NumSites(structure) > 0
               /\ "light_bonds" \in DOMAIN results /\ results.light_bonds = <<>>) =>
        /\ results.shortest_bond = <<>>
        /\ results.phonon_energy_eV = <<0, 1>>
        /\ results.phonon_energy_meV = <<0, 1>>
        /\ ~results.passes_energy_test
        /\ results.critical_bonds = <<>>
        /\ DOMAIN results = {"filepath", "formula", "light_bonds", "shortest_bond",
                             "phonon_energy_meV", "phonon_energy_eV", "passes_energy_test",
                             "critical_bonds", "threshold_meV"}

\* C17: calculate_parity on a graph without nodes raises nothing and returns K = 0,
\* no odd vertex, and statistics that are all 0.
C17_EmptyGraphParity ==
    (DOMAIN G = {} /\ builds > 0 /\ pc \in {"print", "exit", "exited", "except"}) =>
        /\ raised = "none"
        /\ Completed
        /\ results.K_parity = 0
        /\ results.odd_vertices = <<>>
        /\ results.passes_parity_test
        /\ results.graph_stats.total_vertices = 0
        /\ results.graph_stats.total_edges = 0
        /\ results.graph_stats.min_degree = 0
        /\ results.graph_stats.max_degree = 0
        /\ results.graph_stats.avg_degree[1] = 0
        /\ results.graph_stats.odd_degree_count = 0
        /\ results.graph_stats.even_degree_count = 0

C17_Witness ==
    /\ DOMAIN G = {}
    /\ structure = <<>>
    /\ pc \in {"print", "exit"}
    /\ Completed
    /\ results.K_parity = 0
    /\ results.graph_stats.max_degree = 0

\* every path names a readable file that was read to its end and yielded a frequency
EveryFileYields ==
    /\ files # <<>>
    /\ \A k \in DOMAIN files : files[k] = "ok"
    /\ Len(parsed) = Len(files)
    /\ \A k \in DOMAIN parsed : parsed[k] # <<>>

\* a verdict line is among the lines printed
VerdictPrinted == \E k \in DOMAIN stdout : stdout[k][1] \in {"stable", "imaginary"}

\* C18: when every given file exists and yields at least one frequency, the run exits
\* 0 exactly when no frequency of any file is negative and 1 exactly when one is; the
\* counts behind the verdict are those of all files together, and on exit 1 the line
\* printed says imaginary with the number of negative frequencies and the number of all.
C18_VerdictOverAllFiles ==
    (pc = "exited" /\ EveryFileYields) =>
        LET all == Concat(parsed)
            n_total == Len(all)
            n_imag == Cardinality({k \in DOMAIN all : all[k][1] < 0})
        IN /\ exit_code \in {0, 1}
           /\ (exit_code = 0) <=> (n_imag = 0)
           /\ (exit_code = 1) <=> (n_imag > 0)
           /\ total = n_total
           /\ imag = n_imag
           /\ Len(stdout) = 1
           /\ exit_code = 0 => stdout[1][1] = "stable"
           /\ exit_code = 1 =>
                (stdout[1][1] = "imaginary" /\ stdout[1][2] = n_imag /\ stdout[1][3] = n_total)

\* two files, the negative frequency in the first one only
C18_Witness ==
    /\ pc = "exited"
    /\ files = <<"ok", "ok">>
    /\ parsed = << <<(<<-52, 1>>), (<<66712, 3>>)>>, <<(<<66712, 3>>)>> >>
    /\ exit_code = 1
    /\ stdout = << <<"imaginary", 1, 3, (<<-52, 1>>)>> >>

\* C19: a line of the form the mock generator writes, freq(<idx>) = <float> [cm-1], is
\* recognised by parse_frequencies and its number is appended to the list.
C19_MockLineRecognised ==
    (pc = "for_line" /\ nline > 0 /\ line \in MockDynLines) =>
        /\ freqs # <<>>
        /\ line = MockDynLine(1, freqs[Len(freqs)])

\* C20: the run exits 2 and prints no verdict when no path is given, when a path names
\* nothing (then no file is parsed at all), or when a file cannot be read or yields no
\* frequency, whatever the other files hold; a run that exits 0 or 1 had none of these.
C20_ErrorsExitTwo ==
    /\ (\E k \in DOMAIN files : files[k] = "missing") =>
            (pc \in {"main", "exited"} /\ parsed = <<>> /\ nline = 0 /\ line = <<>>)
    /\ (pc = "exited" /\ ~EveryFileYields) => (exit_code = 2 /\ ~VerdictPrinted)
    /\ (pc = "exited" /\ raised # "none") => (exit_code = 2 /\ ~VerdictPrinted)
    /\ (pc = "exited" /\ exit_code \in {0, 1}) => (EveryFileYields /\ raised = "none")

\* the first file is valid, the second holds only its header line
C20_Witness ==
    /\ pc = "exited"
    /\ files = <<"ok", "ok">>
    /\ Len(parsed) = 2
    /\ parsed[1] = <<(<<66712, 3>>)>>
    /\ parsed[2] = <<>>
    /\ line = HeaderLine
    /\ raised = "RuntimeError"
    /\ exit_code = 2
    /\ stdout = <<>>

\* C21: a successful quiet run prints exactly one line, the verdict line (K=... of
\* the parity run, the energy line of the bond-quantum run), and no progress line.
C21_QuietPrintsOneLine ==
    (pc = "exited" /\ quiet /\ raised = "none") =>
        /\ Len(stdout) = 1
        /\ stdout[1] \in {"K_line", "energy_line"}

\* C26: build_connectivity_graph runs exactly once in a parity run that completes,
\* in quiet and non-quiet mode and for every K.
C26_GraphBuiltOnce ==
    (pc = "exited" /\ raised = "none") => builds = 1

C28_KIsEven ==
    Completed =>
        /\ results.K_parity % 2 = 0
        /\ results.K_parity # 1
        /\ results.K_parity = Cardinality(OddNodes(G))
        /\ SumOver([n \in DOMAIN G |-> EdgeEnds(G, n)], DOMAIN G) = 2 * Cardinality(Edges(G))
        /\ results.graph_stats.total_edges = Cardinality(Edges(G))
        /\ results.graph_stats.odd_degree_count + results.graph_stats.even_degree_count
                = NumSites(structure)

\* atom 0 bonded to its own image and to atom 1, whose lookup raised: degrees 3 and 1
C28_Witness ==
    /\ pc = "exited"
    /\ Completed
    /\ failed = {1}
    /\ Edges(G) = {<<{0}, DefaultCutoff>>, <<{0, 1}, DefaultCutoff>>}
    /\ results.K_parity = 2
    /\ results.odd_vertices = <<0, 1>>
    /\ exit_code = 1

\* C22: when the records within cutoff of a 3-atom structure give the chain 0-1, 1-2
\* (each bond from either or both ends), the degrees are 1, 2, 1, K is 2, the odd
\* vertices are 0 and 2, the parity test fails and the run exits 1.
C22_ChainFailsParity ==
    (Completed /\ DOMAIN seen = ChainPairs) =>
        /\ EdgeEnds(G, 0) = 1
        /\ EdgeEnds(G, 1) = 2
        /\ EdgeEnds(G, 2) = 1
        /\ results.graph_stats.min_degree = 1
        /\ results.graph_stats.max_degree = 2
        /\ results.graph_stats.total_edges = 2
        /\ results.K_parity = 2
        /\ results.odd_vertices = <<0, 2>>
        /\ ~results.passes_parity_test
        /\ raised = "none"
        /\ pc = "exited" => exit_code = 1

\* the lookup of the middle atom raised: both bonds come from the end atoms
C22_Witness ==
    /\ pc = "exited"
    /\ failed = {1}
    /\ DOMAIN seen = ChainPairs
    /\ results.K_parity = 2
    /\ exit_code = 1

\* the number m * 2^e of x is less than that of y (mantissas of the same width)
BelowFloat(x, y) == x[2] < y[2] \/ (x[2] = y[2] /\ x[1] < y[1])

\* the latest call was for a longer bond than the call before it
LongerBondCalled ==
    /\ Len(returned) = 2
    /\ BelowFloat(returned[1].bond_distance, returned[2].bond_distance)

WrittenRunScript == written[FileName("run_", PrefixOf(args), ".sh")]

\* C25: after a --full run the run script uses the number of processors given to
\* --nproc (4 when the option is absent).
C25_NprocInRunScript ==
    (pc = "exited" /\ exit_code = 0 /\ args.full) =>
        /\ FileName("run_", PrefixOf(args), ".sh") \in DOMAIN written
        /\ WrittenRunScript.NPROC = args.nproc

\* C29: after a --full run the SCF and phonon inputs the run script reads are files
\* this run wrote, and the phonon input was written as well as the SCF input.
C29_RunScriptReadsWrittenInputs ==
    (pc = "exited" /\ exit_code = 0 /\ args.full) =>
        /\ FileName("", args.output, "_scf.in") \in DOMAIN written
        /\ FileName("", args.output, "_ph.in") \in DOMAIN written
        /\ FileName("run_", PrefixOf(args), ".sh") \in DOMAIN written
        /\ WrittenRunScript.pw_input \in DOMAIN written
        /\ WrittenRunScript.ph_input \in DOMAIN written

\* C30: on every dyn file the two stability checks agree: check_phonon_stability of
\* process_strain_scan returns stable = True exactly when check_phonon_stability.py
\* exits 0 on the file, and stable = False exactly when it exits 1.
C30_StabilityChecksAgree ==
    (pc = "exited" /\ calls = 1) =>
        /\ (returned[1].raised = "none" /\ returned[1].stable) <=> (exit_code = 0)
        /\ (returned[1].raised = "none" /\ ~returned[1].stable) <=> (exit_code = 1)

====
